---- MODULE Spec2Model ----
(***************************************************************************)
(* Model of js/main.js, class WarDashboard: the startup fetch and join,    *)
(* the filter evaluator, the choropleth renderer, the summary counters and *)
(* the cascading state / township / group dropdowns.                       *)
(*                                                                         *)
(* Representation of JavaScript values                                     *)
(*   string      a sequence of one-character strings, "" is << >>          *)
(*   undefined   Undefined, a sequence no string can equal                 *)
(*   object      a function from property names to values; a property a    *)
(*               JavaScript object does not own is outside its DOMAIN      *)
(*   number      [kind, num, den]: a finite rational num/den in lowest     *)
(*               terms, or NaN, +Infinity, -Infinity (rounding of the      *)
(*               IEEE doubles is not modelled)                             *)
(*   Date        [kind, t]: t in days since 1970-01-01 (the code compares  *)
(*               milliseconds, 86400000 per day), "invalid" for            *)
(*               Invalid Date, "null" / "undefined" for an unset bound     *)
(* The Burmese property names of the sheet are written in ASCII:          *)
(*   SacKilled = the SAC-fallen column, RevKilled = the revolution-fallen  *)
(*   column, BasesRev / BasesSac = the two captured-base columns,          *)
(*   Prisoners = the prisoners-of-war column; ALL = the "all" option.      *)
(***************************************************************************)
EXTENDS Integers, Sequences, FiniteSets, TLC

VARIABLES
    sheetRemote,      \* the spreadsheet's values: header row, then rows
    geoRemote,        \* the boundary file's feature collection
    sheetFetch,       \* fetchGoogleSheet(): "pending", "fulfilled", "rejected"
    geoFetch,         \* fetch(geojson).then(json): same
    pc,               \* where init() stands
    sheetData,        \* this.sheetData
    geoData,          \* this.geoData
    mergedData,       \* this.mergedData
    map,              \* this.map: "null" or "created"
    mapLayers,        \* the polygon layers the map holds
    currentLayer,     \* this.currentLayer
    filters,          \* this.filters
    stateOptions,     \* <option>s of #state-filter
    townshipOptions,  \* <option>s of #township-filter
    groupOptions,     \* <option>s of #group-filter
    listeners,        \* the event listeners registered so far
    summary,          \* the four counter elements
    headlines,        \* #headlines
    consoleErrors,    \* number of console.error calls
    uncaught,         \* an exception left a handler or init() uncaught
    last              \* the handler that ran last, its input and its calls

vars == <<sheetRemote, geoRemote, sheetFetch, geoFetch, pc, sheetData, geoData,
          mergedData, map, mapLayers, currentLayer, filters, stateOptions,
          townshipOptions, groupOptions, listeners, summary, headlines,
          consoleErrors, uncaught, last>>

----------------------------------------------------------------------------
(* JavaScript values *)

Undefined == <<"undefined">>

ALL == <<"a", "l", "l">>

\* o.k for an object o
Get(o, k) == IF k \in DOMAIN o THEN o[k] ELSE Undefined

\* Boolean(v) for a string or undefined
Truthy(v) == v # Undefined /\ v # <<>>

\* { ...a, ...b }
Spread(a, b) == [k \in (DOMAIN a) \cup (DOMAIN b) |->
                    IF k \in DOMAIN b THEN b[k] ELSE a[k]]

EmptyObject == [k \in {} |-> Undefined]

\* [...new Set(xs)]: the distinct values in first-occurrence order
RECURSIVE Distinct(_)
Distinct(xs) ==
    IF xs = <<>> THEN <<>>
    ELSE LET init == Distinct(SubSeq(xs, 1, Len(xs) - 1))
             x == xs[Len(xs)]
         IN IF \E i \in 1..Len(init) : init[i] = x THEN init
            ELSE Append(init, x)

Range(xs) == {xs[i] : i \in 1..Len(xs)}

----------------------------------------------------------------------------
(* Numbers *)

Abs(n) == IF n < 0 THEN -n ELSE n

RECURSIVE Gcd(_, _)
Gcd(a, b) == IF b = 0 THEN a ELSE Gcd(b, a % b)

NaN == [kind |-> "NaN", num |-> 0, den |-> 1]
PosInf == [kind |-> "+Infinity", num |-> 0, den |-> 1]
NegInf == [kind |-> "-Infinity", num |-> 0, den |-> 1]

\* the finite number n/d, d # 0, in lowest terms with a positive denominator
Rat(n, d) ==
    LET g == Gcd(Abs(n), Abs(d))
        s == IF d < 0 THEN -1 ELSE 1
    IN [kind |-> "finite", num |-> (s * n) \div g, den |-> (s * d) \div g]

Num(n) == [kind |-> "finite", num |-> n, den |-> 1]

IsFinite(a) == a.kind = "finite"
IsNaN(a) == a.kind = "NaN"
Sign(a) == IF a.num > 0 THEN 1 ELSE IF a.num < 0 THEN -1 ELSE 0
Inf(positive) == IF positive THEN PosInf ELSE NegInf

\* a + b
JsAdd(a, b) ==
    IF IsNaN(a) \/ IsNaN(b) THEN NaN
    ELSE IF IsFinite(a) /\ IsFinite(b)
         THEN Rat(a.num * b.den + b.num * a.den, a.den * b.den)
    ELSE IF IsFinite(a) THEN b
    ELSE IF IsFinite(b) THEN a
    ELSE IF a = b THEN a ELSE NaN

\* -a
JsNeg(a) ==
    IF IsNaN(a) THEN NaN
    ELSE IF IsFinite(a) THEN Rat(-a.num, a.den)
    ELSE Inf(a = NegInf)

\* a - b
JsSub(a, b) == JsAdd(a, JsNeg(b))

\* a * b
JsMul(a, b) ==
    IF IsNaN(a) \/ IsNaN(b) THEN NaN
    ELSE IF IsFinite(a) /\ IsFinite(b) THEN Rat(a.num * b.num, a.den * b.den)
    ELSE LET sa == IF IsFinite(a) THEN Sign(a) ELSE IF a = PosInf THEN 1 ELSE -1
             sb == IF IsFinite(b) THEN Sign(b) ELSE IF b = PosInf THEN 1 ELSE -1
         IN IF sa * sb = 0 THEN NaN ELSE Inf(sa * sb > 0)

\* a / b (the sign of a zero is not modelled: x / 0 takes the sign of x)
JsDiv(a, b) ==
    IF IsNaN(a) \/ IsNaN(b) THEN NaN
    ELSE IF IsFinite(a) /\ IsFinite(b)
         THEN IF b.num # 0 THEN Rat(a.num * b.den, a.den * b.num)
              ELSE IF a.num = 0 THEN NaN ELSE Inf(a.num > 0)
    ELSE IF IsFinite(a) THEN Num(0)
    ELSE IF IsFinite(b) THEN Inf((a = PosInf) = (b.num >= 0))
    ELSE NaN

\* a <= b, false when either is NaN
JsLeq(a, b) ==
    /\ ~IsNaN(a)
    /\ ~IsNaN(b)
    /\ \/ a = NegInf
       \/ b = PosInf
       \/ IsFinite(a) /\ IsFinite(b) /\ a.num * b.den <= b.num * a.den

\* a || b for numbers: b when a is 0 or NaN
JsOr(a, b) == IF IsNaN(a) \/ a = Num(0) THEN b ELSE a

\* Math.max(...xs): -Infinity when xs is empty, NaN when an argument is NaN
RECURSIVE MathMax(_)
MathMax(xs) ==
    IF xs = <<>> THEN NegInf
    ELSE LET rest == MathMax(Tail(xs))
         IN IF IsNaN(xs[1]) \/ IsNaN(rest) THEN NaN
            ELSE IF JsLeq(xs[1], rest) THEN rest ELSE xs[1]

----------------------------------------------------------------------------
(* parseInt *)

Digits == <<"0", "1", "2", "3", "4", "5", "6", "7", "8", "9">>
IsDigit(c) == \E i \in 1..Len(Digits) : Digits[i] = c
DigitValue(c) == (CHOOSE i \in 1..Len(Digits) : Digits[i] = c) - 1

\* the value of the longest prefix of digits of s, read after the digits acc
RECURSIVE DigitPrefix(_, _)
DigitPrefix(s, acc) ==
    IF s = <<>> \/ ~IsDigit(s[1]) THEN acc
    ELSE DigitPrefix(Tail(s), acc * Len(Digits) + DigitValue(s[1]))

RECURSIVE TrimLeft(_)
TrimLeft(s) == IF s # <<>> /\ s[1] = " " THEN TrimLeft(Tail(s)) ELSE s

\* parseInt(v) for a string v or undefined (ToString(undefined) has no digit)
parseInt(v) ==
    LET t == TrimLeft(v)
        negative == t # <<>> /\ t[1] = "-"
        body == IF t # <<>> /\ t[1] \in {"+", "-"} THEN Tail(t) ELSE t
    IN IF body = <<>> \/ ~IsDigit(body[1]) THEN NaN
       ELSE Num((IF negative THEN -1 ELSE 1) * DigitPrefix(body, 0))

----------------------------------------------------------------------------
(* Date *)

\* days from 1970-01-01 to the civil date y-m-d
DaysFromCivil(y, m, d) ==
    LET yy == IF m <= 2 THEN y - 1 ELSE y
        era == yy \div 400
        yoe == yy - era * 400
        mp == IF m > 2 THEN m - 3 ELSE m + 9
        doy == (153 * mp + 2) \div 5 + d - 1
        doe == yoe * 365 + yoe \div 4 - yoe \div 100 + doy
    IN era * 146097 + doe - 719468

InvalidDate == [kind |-> "invalid", t |-> 0]
NullDate == [kind |-> "null", t |-> 0]
UndefinedDate == [kind |-> "undefined", t |-> 0]
DateAt(t) == [kind |-> "date", t |-> t]

\* new Date(v) for a string v or undefined. Only the date-only ISO form
\* YYYY-MM-DD with a day every month has is read (as UTC midnight); every
\* other string the inputs hold, and undefined, is an Invalid Date.
NewDate(v) ==
    LET isIso == /\ Len(v) = 10
                 /\ v[5] = "-"
                 /\ v[8] = "-"
                 /\ \A i \in {1, 2, 3, 4, 6, 7, 9, 10} : IsDigit(v[i])
        y == DigitPrefix(SubSeq(v, 1, 4), 0)
        m == DigitPrefix(SubSeq(v, 6, 7), 0)
        d == DigitPrefix(SubSeq(v, 9, 10), 0)
    IN IF isIso /\ m \in 1..12 /\ d \in 1..28
       THEN DateAt(DaysFromCivil(y, m, d))
       ELSE InvalidDate

\* !d for a filter bound
DateUnset(d) == d.kind \in {"null", "undefined"}

\* a >= b and a <= b on Dates: false when either is an Invalid Date
DateGeq(a, b) == a.kind = "date" /\ b.kind = "date" /\ a.t >= b.t
DateLeq(a, b) == a.kind = "date" /\ b.kind = "date" /\ a.t <= b.t

----------------------------------------------------------------------------
(* Loading and joining *)

\* processSheetData(rows): one object per row after the header row; a row
\* shorter than the header leaves the missing cells undefined
processSheetData(rows) ==
    LET headers == rows[1]
        item(row) == [h \in Range(headers) |->
                        LET index == CHOOSE i \in 1..Len(headers) :
                                        /\ headers[i] = h
                                        /\ \A j \in (i + 1)..Len(headers) :
                                              headers[j] # h
                      IN IF index <= Len(row) THEN row[index] ELSE Undefined]
    IN [i \in 1..(Len(rows) - 1) |-> item(rows[i + 1])]

\* the rows d with d.TS_MMR_DASH === township; find() returns the first
sheetMatches(sheet, township) ==
    {i \in 1..Len(sheet) : Get(sheet[i], "TS_MMR_DASH") = township}

\* mergeFeature taking the last matching row instead of the first
mergeFeatureLastMatch(feature, sheet) ==
    LET township == Get(feature.properties, "TS_MMR")
        hits == sheetMatches(sheet, township)
        found == hits # {}
        sheetEntry == IF found THEN sheet[CHOOSE i \in hits : \A j \in hits : i >= j]
                      ELSE EmptyObject
        totalTime == IF found
                     THEN JsOr(parseInt(Get(sheetEntry, "Time")), Num(0))
                     ELSE Num(0)
    IN [feature EXCEPT !.properties =
            Spread(Spread(feature.properties, sheetEntry),
                   [totalTime |-> totalTime])]

\* the object mergeData builds for one feature; sheetEntry is undefined, and
\* spreads to nothing, when no row matches
mergeFeature(feature, sheet) ==
    LET township == Get(feature.properties, "TS_MMR")
        hits == sheetMatches(sheet, township)
        found == hits # {}
        sheetEntry == IF found THEN sheet[CHOOSE i \in hits : \A j \in hits : i <= j]
                      ELSE EmptyObject
        totalTime == IF found
                     THEN JsOr(parseInt(Get(sheetEntry, "Time")), Num(0))
                     ELSE Num(0)
    IN [feature EXCEPT !.properties =
            Spread(Spread(feature.properties, sheetEntry),
                   [totalTime |-> totalTime])]

\* mergeData()
mergeData(geo, sheet) ==
    [i \in 1..Len(geo.features) |-> mergeFeature(geo.features[i], sheet)]

----------------------------------------------------------------------------
(* Filtering and rendering *)

\* filterMatch with the start bound exclusive
filterMatchAfterStart(feature, f) ==
    LET props == feature.properties
        date == NewDate(Get(props, "Date"))
        dateMatch == /\ (DateUnset(f.startDate) \/ (DateGeq(date, f.startDate) /\ date # f.startDate))
                     /\ (DateUnset(f.endDate) \/ DateLeq(date, f.endDate))
        stateMatch == f.state = ALL \/ Get(props, "ST_MMR") = f.state
        townshipMatch == f.township = ALL \/ Get(props, "TS_MMR_DASH") = f.township
        groupMatch == f.group = ALL \/ Get(props, "Groups") = f.group
    IN dateMatch /\ stateMatch /\ townshipMatch /\ groupMatch

\* the predicate of applyFilters for one feature
filterMatch(feature, f) ==
    LET props == feature.properties
        date == NewDate(Get(props, "Date"))
        dateMatch == /\ (DateUnset(f.startDate) \/ DateGeq(date, f.startDate))
                     /\ (DateUnset(f.endDate) \/ DateLeq(date, f.endDate))
        stateMatch == f.state = ALL \/ Get(props, "ST_MMR") = f.state
        townshipMatch == f.township = ALL \/ Get(props, "TS_MMR_DASH") = f.township
        groupMatch == f.group = ALL \/ Get(props, "Groups") = f.group
    IN dateMatch /\ stateMatch /\ townshipMatch /\ groupMatch

\* applyFilters()
applyFilters(merged, f) ==
    LET keep(feature) == filterMatch(feature, f)
    IN SelectSeq(merged, keep)

\* getStyle spreading the intensity over 25 points of lightness
getStyleQuarter(feature, maxTime) ==
    LET value == feature.properties.totalTime
        intensity == JsDiv(value, maxTime)
    IN JsSub(Num(100), JsMul(intensity, Num(25)))

\* getStyle(feature, maxTime): the lightness of fillColor
getStyle(feature, maxTime) ==
    LET value == feature.properties.totalTime
        intensity == JsDiv(value, maxTime)
    IN JsSub(Num(100), JsMul(intensity, Num(50)))

\* parseInt(v || 0)
countOf(v) == IF Truthy(v) THEN parseInt(v) ELSE Num(0)

ZeroTotals == [sacrificeSac |-> Num(0), revolutionMartyrs |-> Num(0),
               capturedBases |-> Num(0), prisonersWar |-> Num(0)]

\* the reducer of updateSummaryCards
addTotals(acc, feature) ==
    LET props == feature.properties
    IN [sacrificeSac |-> JsAdd(acc.sacrificeSac, countOf(Get(props, "SacKilled"))),
        revolutionMartyrs |->
            JsAdd(acc.revolutionMartyrs, countOf(Get(props, "RevKilled"))),
        capturedBases |->
            JsAdd(JsAdd(acc.capturedBases, countOf(Get(props, "BasesRev"))),
                  countOf(Get(props, "BasesSac"))),
        prisonersWar |-> JsAdd(acc.prisonersWar, countOf(Get(props, "Prisoners")))]

\* updateSummaryCards(data): the four totals written to the counters
RECURSIVE updateSummaryCards(_)
updateSummaryCards(data) ==
    IF data = <<>> THEN ZeroTotals
    ELSE addTotals(updateSummaryCards(SubSeq(data, 1, Len(data) - 1)),
                   data[Len(data)])

\* v || ''
orEmpty(v) == IF Truthy(v) THEN v ELSE <<>>

\* updateHeadlines(data): one entry per feature
updateHeadlines(data) ==
    [i \in 1..Len(data) |->
        [type1 |-> orEmpty(Get(data[i].properties, "Type1")),
         headline |-> orEmpty(Get(data[i].properties, "Headline"))]]

NoLayer == [present |-> FALSE, data |-> <<>>, styles |-> <<>>]

\* L.geoJson(filteredData, {style}) : the layer and the style of each feature
geoJsonLayer(filteredData) ==
    LET totalTimes == [i \in 1..Len(filteredData) |->
                          filteredData[i].properties.totalTime]
        maxTime == MathMax(totalTimes)
    IN [present |-> TRUE,
        data |-> filteredData,
        styles |-> [i \in 1..Len(filteredData) |->
                       getStyle(filteredData[i], maxTime)]]

\* map.removeLayer(layer)
removeLayer(layers, layer) ==
    LET hits == {i \in 1..Len(layers) : layers[i] = layer}
    IN IF hits = {} THEN layers
       ELSE LET k == CHOOSE i \in hits : \A j \in hits : i <= j
            IN SubSeq(layers, 1, k - 1) \o SubSeq(layers, k + 1, Len(layers))

\* updateChoropleth() without its first line
layersKept(layers, layer) == layers

\* the layers after updateChoropleth's first line
layersAfterRemove(layers, layer) ==
    IF layer.present THEN removeLayer(layers, layer) ELSE layers

----------------------------------------------------------------------------
(* Dropdown options *)

\* the values of one column that pass filter(Boolean), distinct, in order
\* of first occurrence
distinctValues(records, property) ==
    LET values == Distinct([i \in 1..Len(records) |-> Get(records[i], property)])
    IN SelectSeq(values, Truthy)

\* initSelectFilter(elementId, property): the options appended
initSelectFilter(sheet, property) == <<ALL>> \o distinctValues(sheet, property)

\* updateTownshipFilter(): the options it leaves
townshipFilterOptions(sheet, f) ==
    LET inState(d) == f.state = ALL \/ Get(d, "ST_MMR") = f.state
    IN <<ALL>> \o distinctValues(SelectSeq(sheet, inState), "TS_MMR_DASH")

\* groupFilterOptions looking at the state only
groupFilterOptionsOfState(sheet, f) ==
    LET matches(d) == f.state = ALL \/ Get(d, "ST_MMR") = f.state
    IN <<ALL>> \o distinctValues(SelectSeq(sheet, matches), "Groups")

\* updateGroupFilter(): the options it leaves
groupFilterOptions(sheet, f) ==
    LET matches(d) ==
            /\ f.state = ALL \/ Get(d, "ST_MMR") = f.state
            /\ f.township = ALL \/ Get(d, "TS_MMR_DASH") = f.township
    IN <<ALL>> \o distinctValues(SelectSeq(sheet, matches), "Groups")

\* this.filters.township = ALL, the last line of updateTownshipFilter()
resetTownship(f) == [f EXCEPT !.township = ALL]

\* updateGroupFilter() without its last line
resetGroupForgotten(f) == f

\* this.filters.group = ALL, the last line of updateGroupFilter()
resetGroup(f) == [f EXCEPT !.group = ALL]

----------------------------------------------------------------------------
(* The inputs: what the two remote resources may hold *)

MaxRows == 2
MaxFeatures == 2

T1 == <<"T", "1">>
T2 == <<"T", "2">>
T3 == <<"T", "3">>
S1 == <<"S", "1">>
S2 == <<"S", "2">>
G1 == <<"G", "1">>
G2 == <<"G", "2">>

\* the date string of the d-th of January 2024, d < 10
Jan(d) == <<"2", "0", "2", "4", "-", "0", "1", "-", "0", Digits[d + 1]>>

\* the days the date picker can deliver: midnights, as Dates, of a page whose
\* local time is UTC (elsewhere the picker's local midnight and the UTC
\* midnight new Date reads from a date-only string differ by the offset)
PickerDates == {DateAt(DaysFromCivil(2024, 1, 2))}

\* onChange(dates) of a range picker: nothing, a start, or a start and an end
PickerSelections ==
    {<<>>} \cup {<<a>> : a \in PickerDates}
           \cup {d \in PickerDates \X PickerDates : d[1].t <= d[2].t}

\* the sequences over S of length at most n
RECURSIVE SeqsUpTo(_, _)
SeqsUpTo(S, n) ==
    IF n = 0 THEN {<<>>}
    ELSE LET shorter == SeqsUpTo(S, n - 1)
         IN shorter \cup {Append(xs, x) : xs \in shorter, x \in S}

Feature(name, properties) ==
    [type |-> "Feature", geometry |-> name, properties |-> properties]

\* the dashboard's sheet: rows over the columns the filters and cards read
DashHeaders ==
    <<"TS_MMR_DASH", "ST_MMR", "Groups", "Date", "Time", "SacKilled",
      "BasesRev", "BasesSac", "Type1", "Headline">>

DashRows ==
    << <<T1, S1, G1, Jan(1), <<"5">>, <<"2">>, <<"1">>, <<"1">>, <<"A">>, <<"h">>>>,
       <<T2, S1, G2, Jan(2), <<"3">>, <<"x">>, <<>>, <<"2">>, <<>>, <<"i">>>>,
       <<T2, S2, G1, Jan(3), <<"0">>, <<"4">>, <<"1">>, <<>>, <<"B">>, <<>>>>,
       <<T1, <<>>, G1, <<"n", "/", "a">>, <<"7">>, <<" ", "3">>>>,
       <<<<>>, S2, G2>> >>

\* every sheet of at most MaxRows of these rows, and the sheet of all of them
DashSheets ==
    {<<DashHeaders>> \o rows : rows \in SeqsUpTo(Range(DashRows), MaxRows)}
        \cup {<<DashHeaders>> \o DashRows}

DashGeos ==
    {[features |-> <<Feature("p1", [TS_MMR |-> T1, TS |-> <<"a">>]),
                     Feature("p2", [TS_MMR |-> T2, TS |-> <<"b">>]),
                     Feature("p3", [TS_MMR |-> T3, TS |-> <<"c">>])>>]}

\* the sheet and the boundary file of the end-to-end example
town1 == <<"t", "o", "w", "n", "1">>
town2 == <<"t", "o", "w", "n", "2">>
ExampleSheet == << <<"TS_MMR_DASH", "Time", "ST_MMR">>, <<town1, <<"5">>, S1>> >>
ExampleGeo == [features |-> <<Feature("town1", [TS_MMR |-> town1]),
                              Feature("town2", [TS_MMR |-> town2])>>]

\* the inputs of the join: keys that repeat, keys nothing matches, a missing
\* key, the forms of Time parseInt tells apart, a property on both sides
JoinHeaders == <<"TS_MMR_DASH", "Time", "ST_MMR">>

JoinTimes == {<<"5">>, <<"0">>, <<"x">>, <<"1", "2", "k", "m">>, <<"-", "2">>,
              <<" ", "7">>, <<>>}

JoinRows ==
    {<<T1, time, S1>> : time \in JoinTimes}
        \cup {<<T2, <<"4">>, S2>>, <<T1>>, <<>>}

JoinSheets == {<<JoinHeaders>> \o rows : rows \in SeqsUpTo(JoinRows, MaxRows)}

JoinFeatures ==
    { Feature("p1", [TS_MMR |-> T1, ST_MMR |-> <<"s">>, Time |-> <<"9">>]),
      Feature("p2", [TS_MMR |-> T2, totalTime |-> <<"8">>]),
      Feature("p3", [TS_MMR |-> T3]),
      Feature("p0", [TS |-> <<"e">>]) }

JoinGeos == {[features |-> fs] : fs \in SeqsUpTo(JoinFeatures, MaxFeatures)}

----------------------------------------------------------------------------
(* The state after the constructor *)

Absent == [defined |-> FALSE, value |-> <<>>]
Present(v) == [defined |-> TRUE, value |-> v]

\* the text of a counter element nothing has written to
Unwritten == [kind |-> "unwritten", num |-> 0, den |-> 1]

UnsetCounters == [sacrificeSac |-> Unwritten, revolutionMartyrs |-> Unwritten,
                  capturedBases |-> Unwritten, prisonersWar |-> Unwritten]

NoEvent == [event |-> "none", value |-> <<>>, dates |-> <<>>, calls |-> <<>>]

\* constructor(): the fields, before init() has done anything; the three
\* selects of the page hold no option and the counters no text
Constructed ==
    /\ pc = "loading"
    /\ sheetData = <<>>
    /\ geoData = Absent
    /\ mergedData = Absent
    /\ map = "null"
    /\ mapLayers = <<>>
    /\ currentLayer = NoLayer
    /\ filters = [startDate |-> NullDate, endDate |-> NullDate,
                  state |-> ALL, township |-> ALL, group |-> ALL]
    /\ stateOptions = <<>>
    /\ townshipOptions = <<>>
    /\ groupOptions = <<>>
    /\ listeners = {}
    /\ summary = UnsetCounters
    /\ headlines = <<>>
    /\ consoleErrors = 0
    /\ uncaught = FALSE
    /\ last = NoEvent

\* the page as the browser loads it, both requests in flight
Init ==
    /\ \/ sheetRemote \in DashSheets /\ geoRemote \in DashGeos
       \/ sheetRemote = ExampleSheet /\ geoRemote = ExampleGeo
    /\ sheetFetch = "pending"
    /\ geoFetch = "pending"
    /\ Constructed

----------------------------------------------------------------------------
(* Startup: the two fetches, loadData() and init() *)

env == <<sheetRemote, geoRemote>>
fetches == <<sheetFetch, geoFetch>>
loaded == <<sheetData, geoData, mergedData>>
view == <<mapLayers, currentLayer, summary, headlines>>
selects == <<stateOptions, townshipOptions, groupOptions>>

SheetFetchFulfilled ==
    /\ sheetFetch = "pending"
    /\ sheetFetch' = "fulfilled"
    /\ UNCHANGED <<env, geoFetch, pc, loaded, map, view, filters, selects,
                   listeners, consoleErrors, uncaught, last>>

SheetFetchRejected ==
    /\ sheetFetch = "pending"
    /\ sheetFetch' = "rejected"
    /\ UNCHANGED <<env, geoFetch, pc, loaded, map, view, filters, selects,
                   listeners, consoleErrors, uncaught, last>>

GeoFetchFulfilled ==
    /\ geoFetch = "pending"
    /\ geoFetch' = "fulfilled"
    /\ UNCHANGED <<env, sheetFetch, pc, loaded, map, view, filters, selects,
                   listeners, consoleErrors, uncaught, last>>

GeoFetchRejected ==
    /\ geoFetch = "pending"
    /\ geoFetch' = "rejected"
    /\ UNCHANGED <<env, sheetFetch, pc, loaded, map, view, filters, selects,
                   listeners, consoleErrors, uncaught, last>>

\* Promise.all([...]) is fulfilled once both are, rejected once one is
allFulfilled == sheetFetch = "fulfilled" /\ geoFetch = "fulfilled"
allRejected == sheetFetch = "rejected" \/ geoFetch = "rejected"

\* loadData(), the try block after the await
LoadDataFulfilled ==
    /\ pc = "loading"
    /\ allFulfilled
    /\ sheetData' = processSheetData(sheetRemote)
    /\ geoData' = Present(geoRemote)
    /\ mergedData' = Present(mergeData(geoRemote, sheetData'))
    /\ pc' = "loaded"
    /\ UNCHANGED <<env, fetches, map, view, filters, selects, listeners,
                   consoleErrors, uncaught, last>>

\* loadData(), the catch block
LoadDataRejected ==
    /\ pc = "loading"
    /\ allRejected
    /\ consoleErrors' = consoleErrors + 1
    /\ pc' = "loaded"
    /\ UNCHANGED <<env, fetches, loaded, map, view, filters, selects, listeners,
                   uncaught, last>>

\* updateChoropleth(), reached through updateDashboard(), under the filters f:
\* this.mergedData.filter throws a TypeError while mergedData is undefined,
\* after the previous layer has been removed
updateDashboard(f) ==
    IF mergedData.defined
    THEN LET filteredData == applyFilters(mergedData.value, f)
             layer == geoJsonLayer(filteredData)
         IN /\ mapLayers' = Append(layersAfterRemove(mapLayers, currentLayer), layer)
            /\ currentLayer' = layer
            /\ summary' = updateSummaryCards(filteredData)
            /\ headlines' = updateHeadlines(filteredData)
            /\ uncaught' = uncaught
    ELSE /\ mapLayers' = layersAfterRemove(mapLayers, currentLayer)
         /\ uncaught' = TRUE
         /\ UNCHANGED <<currentLayer, summary, headlines>>

\* init() after await this.loadData(): initMap, initFilters, initDatePicker,
\* updateDashboard, whatever loadData() did
InitContinue ==
    /\ pc = "loaded"
    /\ map' = "created"
    /\ stateOptions' = stateOptions \o initSelectFilter(sheetData, "ST_MMR")
    /\ townshipOptions' = townshipOptions \o initSelectFilter(sheetData, "TS_MMR_DASH")
    /\ groupOptions' = groupFilterOptions(sheetData, filters)
    /\ filters' = resetGroup(filters)
    /\ listeners' = listeners \cup {"state", "township", "group", "date"}
    /\ updateDashboard(filters')
    /\ pc' = IF mergedData.defined THEN "ready" ELSE "failed"
    /\ last' = [event |-> "init", value |-> <<>>, dates |-> <<>>,
                calls |-> <<"initMap", "initFilters", "initDatePicker",
                            "updateDashboard">>]
    /\ UNCHANGED <<env, fetches, loaded, consoleErrors>>

----------------------------------------------------------------------------
(* The event handlers *)

\* change on #state-filter with e.target.value = v
StateChange(v) ==
    /\ "state" \in listeners
    /\ v \in Range(stateOptions)
    /\ LET f1 == [filters EXCEPT !.state = v]
           f2 == resetTownship(f1)
           f3 == resetGroup(f2)
       IN /\ townshipOptions' = townshipFilterOptions(sheetData, f1)
          /\ groupOptions' = groupFilterOptions(sheetData, f2)
          /\ filters' = f3
          /\ updateDashboard(f3)
    /\ last' = [event |-> "state", value |-> v, dates |-> <<>>,
                calls |-> <<"updateTownshipFilter", "updateGroupFilter",
                            "updateDashboard">>]
    /\ UNCHANGED <<env, fetches, pc, loaded, map, stateOptions, listeners,
                   consoleErrors>>

\* change on #township-filter with e.target.value = v
TownshipChange(v) ==
    /\ "township" \in listeners
    /\ v \in Range(townshipOptions)
    /\ LET f1 == [filters EXCEPT !.township = v]
           f2 == resetGroup(f1)
       IN /\ groupOptions' = groupFilterOptions(sheetData, f1)
          /\ filters' = f2
          /\ updateDashboard(f2)
    /\ last' = [event |-> "township", value |-> v, dates |-> <<>>,
                calls |-> <<"updateGroupFilter", "updateDashboard">>]
    /\ UNCHANGED <<env, fetches, pc, loaded, map, stateOptions, townshipOptions,
                   listeners, consoleErrors>>

\* change on #group-filter with e.target.value = v
GroupChange(v) ==
    /\ "group" \in listeners
    /\ v \in Range(groupOptions)
    /\ filters' = [filters EXCEPT !.group = v]
    /\ updateDashboard(filters')
    /\ last' = [event |-> "group", value |-> v, dates |-> <<>>,
                calls |-> <<"updateDashboard">>]
    /\ UNCHANGED <<env, fetches, pc, loaded, map, selects, listeners,
                   consoleErrors>>

\* [a, b] = dates: an element the array lacks is undefined
destructure(dates, i) == IF i <= Len(dates) THEN dates[i] ELSE UndefinedDate

\* onChange(dates) rebuilding the group dropdown as a township change does
DateChangeCascading(dates) ==
    /\ "date" \in listeners
    /\ dates \in PickerSelections
    /\ LET f1 == [filters EXCEPT !.startDate = destructure(dates, 1),
                                 !.endDate = destructure(dates, 2)]
           f2 == resetGroup(f1)
       IN /\ groupOptions' = groupFilterOptions(sheetData, f1)
          /\ filters' = f2
          /\ updateDashboard(f2)
    /\ last' = [event |-> "date", value |-> <<>>, dates |-> dates,
                calls |-> <<"updateGroupFilter", "updateDashboard">>]
    /\ UNCHANGED <<env, fetches, pc, loaded, map, stateOptions, townshipOptions,
                   listeners, consoleErrors>>

\* onChange(dates) of the date picker
DateChange(dates) ==
    /\ "date" \in listeners
    /\ dates \in PickerSelections
    /\ filters' = [filters EXCEPT !.startDate = destructure(dates, 1),
                                  !.endDate = destructure(dates, 2)]
    /\ updateDashboard(filters')
    /\ last' = [event |-> "date", value |-> <<>>, dates |-> dates,
                calls |-> <<"updateDashboard">>]
    /\ UNCHANGED <<env, fetches, pc, loaded, map, selects, listeners,
                   consoleErrors>>

Next ==
    \/ SheetFetchFulfilled
    \/ SheetFetchRejected
    \/ GeoFetchFulfilled
    \/ GeoFetchRejected
    \/ LoadDataFulfilled
    \/ LoadDataRejected
    \/ InitContinue
    \/ \E v \in Range(stateOptions) : StateChange(v)
    \/ \E v \in Range(townshipOptions) : TownshipChange(v)
    \/ \E v \in Range(groupOptions) : GroupChange(v)
    \/ \E dates \in PickerSelections : DateChange(dates)

Spec == Init /\ [][Next]_vars

\* the join alone: both responses have arrived, loadData() resumes
InitJoin ==
    /\ sheetRemote \in JoinSheets
    /\ geoRemote \in JoinGeos
    /\ sheetFetch = "fulfilled"
    /\ geoFetch = "fulfilled"
    /\ Constructed

NextJoin == LoadDataFulfilled

SpecJoin == InitJoin /\ [][NextJoin]_vars

----------------------------------------------------------------------------
(* The join (SpecJoin) *)

\* what the integer parse of each Time cell of JoinTimes is to be, 0 for a
\* cell that is absent, empty or starts with no digit
ExpectedTime(v) ==
    CASE v = <<"5">> -> 5
      [] v = <<"4">> -> 4
      [] v = <<"1", "2", "k", "m">> -> 12
      [] v = <<"-", "2">> -> -2
      [] v = <<" ", "7">> -> 7
      [] OTHER -> 0

\* the rows of sheetData whose township key is the key of boundary feature i
rowsOfFeature(i) ==
    {j \in 1..Len(sheetData) :
        Get(sheetData[j], "TS_MMR_DASH") = Get(geoRemote.features[i].properties, "TS_MMR")}

\* C6: mergeData is an outer join on the boundary side: one merged entry per
\* boundary feature, in boundary order; a feature some row matches takes every
\* field of the first such row (the row's value where both have the field),
\* keeps its other properties, and gets totalTime = the integer parse of that
\* row's Time, 0 when Time is absent or unparseable; a feature no row matches
\* keeps exactly its own properties and gets totalTime = 0.
MergeIsOuterJoin ==
    mergedData.defined =>
        LET merged == mergedData.value
            features == geoRemote.features
        IN /\ Len(merged) = Len(features)
           /\ \A i \in 1..Len(features) :
                LET own == features[i].properties
                    got == merged[i].properties
                    rows == rowsOfFeature(i)
                IN /\ merged[i].geometry = features[i].geometry
                   /\ merged[i].type = features[i].type
                   /\ IF rows = {}
                      THEN /\ DOMAIN got = DOMAIN own \cup {"totalTime"}
                           /\ \A k \in DOMAIN own \ {"totalTime"} : got[k] = own[k]
                           /\ got.totalTime = Num(0)
                      ELSE LET first == sheetData[CHOOSE j \in rows :
                                                    \A k \in rows : j <= k]
                           IN /\ DOMAIN got = DOMAIN own \cup DOMAIN first
                                                \cup {"totalTime"}
                              /\ \A k \in DOMAIN first \ {"totalTime"} :
                                    got[k] = first[k]
                              /\ \A k \in DOMAIN own \ (DOMAIN first \cup {"totalTime"}) :
                                    got[k] = own[k]
                              /\ got.totalTime = Num(ExpectedTime(Get(first, "Time")))

\* two boundary features joined: one matched by two rows whose Time differ,
\* the row's ST_MMR and Time overriding the feature's own, and one unmatched
MergeWitness ==
    /\ mergedData.defined
    /\ Len(mergedData.value) = 2
    /\ \E i, u \in 1..2 :
          /\ rowsOfFeature(u) = {}
          /\ rowsOfFeature(i) = {1, 2}
          /\ Get(sheetData[1], "Time") = <<"1", "2", "k", "m">>
          /\ Get(sheetData[2], "Time") = <<"5">>
          /\ "ST_MMR" \in DOMAIN geoRemote.features[i].properties
          /\ mergedData.value[i].properties.totalTime = Num(12)

----------------------------------------------------------------------------
(* The filter evaluator (Spec) *)

filtersUnset ==
    /\ DateUnset(filters.startDate)
    /\ DateUnset(filters.endDate)
    /\ filters.state = ALL
    /\ filters.township = ALL
    /\ filters.group = ALL

\* the merged features the current filters are to keep
shouldKeep(feature) ==
    LET props == feature.properties
        date == NewDate(Get(props, "Date"))
    IN /\ filters.startDate.kind = "date" =>
            date.kind = "date" /\ filters.startDate.t <= date.t
       /\ filters.endDate.kind = "date" =>
            date.kind = "date" /\ date.t <= filters.endDate.t
       /\ filters.state # ALL =>
            "ST_MMR" \in DOMAIN props /\ props.ST_MMR = filters.state
       /\ filters.township # ALL =>
            "TS_MMR_DASH" \in DOMAIN props /\ props.TS_MMR_DASH = filters.township
       /\ filters.group # ALL =>
            "Groups" \in DOMAIN props /\ props.Groups = filters.group

\* C5: applyFilters returns exactly the merged features, in merged order, that
\* lie within the inclusive date range (an unset bound not restricting) and
\* equal the state, township and group filters (a filter at "all" not
\* restricting); with nothing set it returns the whole merged set, the
\* features no row matched included.
ApplyFiltersExact ==
    mergedData.defined =>
        LET merged == mergedData.value
            result == applyFilters(merged, filters)
            kept == {i \in 1..Len(merged) : shouldKeep(merged[i])}
            \* the index in merged of the p-th kept feature
            nth(p) == CHOOSE i \in kept :
                         Cardinality({j \in kept : j <= i}) = p
        IN /\ Len(result) = Cardinality(kept)
           /\ \A p \in 1..Len(result) : result[p] = merged[nth(p)]
           /\ filtersUnset => result = merged

\* both date bounds, the state and the group filter are set, a feature dated
\* on the bound itself is kept and another feature is dropped
ApplyFiltersWitness ==
    /\ pc = "ready"
    /\ filters.startDate.kind = "date"
    /\ filters.endDate.kind = "date"
    /\ filters.state # ALL
    /\ filters.group # ALL
    /\ Len(currentLayer.data) < Len(mergedData.value)
    /\ \E i \in 1..Len(currentLayer.data) :
          NewDate(Get(currentLayer.data[i].properties, "Date")) = filters.startDate

----------------------------------------------------------------------------
(* The cascading dropdowns (Spec) *)

\* the non-empty values of a column over the rows of sheetData that pass keep
columnValues(property, keep(_)) ==
    {sheetData[i][property] :
        i \in {j \in 1..Len(sheetData) :
                  /\ keep(sheetData[j])
                  /\ property \in DOMAIN sheetData[j]
                  /\ sheetData[j][property] \notin {<<>>, Undefined}}}

inSelectedState(d) == filters.state = ALL \/ Get(d, "ST_MMR") = filters.state

inSelectedTownship(d) ==
    filters.township = ALL \/ Get(d, "TS_MMR_DASH") = filters.township

inSelectedStateAndTownship(d) == inSelectedState(d) /\ inSelectedTownship(d)

\* options lists exactly "all" and the values of S, each once
listsExactly(options, S) ==
    /\ Range(options) = {ALL} \cup S
    /\ Len(options) = Cardinality({ALL} \cup S)

\* C2: once initialization has succeeded, and after every change event, the
\* township options are "all" plus the distinct non-empty townships of the
\* rows of the selected state, the group options are "all" plus the distinct
\* non-empty groups of the rows of the selected state and township, and the
\* selected township and group are among their options.
OptionsFollowAncestors ==
    pc = "ready" =>
        /\ listsExactly(townshipOptions, columnValues("TS_MMR_DASH", inSelectedState))
        /\ listsExactly(groupOptions, columnValues("Groups", inSelectedStateAndTownship))
        /\ filters.township \in Range(townshipOptions)
        /\ filters.group \in Range(groupOptions)

\* a state and a township are selected, the state hides a township of the
\* sheet and the township hides a group of the state
OptionsWitness ==
    /\ pc = "ready"
    /\ filters.state # ALL
    /\ filters.township # ALL
    /\ filters.group # ALL
    /\ \E i \in 1..Len(sheetData) :
          /\ Truthy(Get(sheetData[i], "TS_MMR_DASH"))
          /\ Get(sheetData[i], "TS_MMR_DASH") \notin Range(townshipOptions)
    /\ \E i \in 1..Len(sheetData) :
          /\ inSelectedState(sheetData[i])
          /\ Truthy(Get(sheetData[i], "Groups"))
          /\ Get(sheetData[i], "Groups") \notin Range(groupOptions)

\* C3: a state change leaves the township and the group filter at "all" and
\* the state filter at the chosen state, having called updateTownshipFilter,
\* updateGroupFilter and updateDashboard in that order; a township change
\* leaves the group filter at "all", the township filter at the chosen
\* township and the state filter as it was, having called updateGroupFilter
\* and then updateDashboard.
CascadeStep ==
    /\ last'.event = "state" =>
          /\ filters'.state = last'.value
          /\ filters'.township = ALL
          /\ filters'.group = ALL
          /\ last'.calls = <<"updateTownshipFilter", "updateGroupFilter",
                             "updateDashboard">>
    /\ last'.event = "township" =>
          /\ filters'.township = last'.value
          /\ filters'.group = ALL
          /\ filters'.state = filters.state
          /\ last'.calls = <<"updateGroupFilter", "updateDashboard">>

CascadeResets == [][CascadeStep]_vars

\* a township was just chosen under a selected state, after a group had been
\* selected: the group options offer more than "all"
CascadeWitness ==
    /\ pc = "ready"
    /\ last.event = "township"
    /\ filters.state # ALL
    /\ filters.township # ALL
    /\ filters.group = ALL
    /\ Len(groupOptions) > 1

\* C4: a group change and a date-range change leave the state filter, the
\* township filter, the township options and the group options as they
\* were; a group change leaves both date bounds, a date-range change the
\* group filter.
RerenderOnlyStep ==
    /\ last'.event \in {"group", "date"} =>
          /\ filters'.state = filters.state
          /\ filters'.township = filters.township
          /\ townshipOptions' = townshipOptions
          /\ groupOptions' = groupOptions
          /\ stateOptions' = stateOptions
    /\ last'.event = "group" =>
          /\ filters'.startDate = filters.startDate
          /\ filters'.endDate = filters.endDate
          /\ filters'.group = last'.value
    /\ last'.event = "date" =>
          /\ filters'.group = filters.group
          /\ <<filters'.startDate, filters'.endDate>> =
                <<destructure(last'.dates, 1), destructure(last'.dates, 2)>>

RerenderOnly == [][RerenderOnlyStep]_vars

\* a date range was just picked while a state, a township and a group were
\* selected
RerenderWitness ==
    /\ pc = "ready"
    /\ last.event = "date"
    /\ filters.startDate.kind = "date"
    /\ filters.state # ALL
    /\ filters.township # ALL
    /\ filters.group # ALL

----------------------------------------------------------------------------
(* The rendered view (Spec) *)

\* C10: once initialization has succeeded, and after every handler, the map
\* holds one polygon layer, the one built from applyFilters of the filters
\* as the handler left them, and the counters and the headline list (one
\* entry per filtered feature, in order) are computed from that filtered set.
ViewInSync ==
    pc = "ready" =>
        LET filteredData == applyFilters(mergedData.value, filters)
        IN /\ currentLayer.present
           /\ mapLayers = <<currentLayer>>
           /\ currentLayer.data = filteredData
           /\ summary = updateSummaryCards(filteredData)
           /\ Len(headlines) = Len(filteredData)
           /\ \A i \in 1..Len(filteredData) :
                /\ headlines[i].headline =
                      orEmpty(Get(filteredData[i].properties, "Headline"))
                /\ headlines[i].type1 =
                      orEmpty(Get(filteredData[i].properties, "Type1"))

\* a state change that reset a selected township and group has re-rendered:
\* the layer shows some but not all merged features
ViewWitness ==
    /\ pc = "ready"
    /\ last.event = "state"
    /\ filters.state # ALL
    /\ Len(currentLayer.data) > 1
    /\ Len(currentLayer.data) < Len(mergedData.value)
    /\ Len(headlines) = Len(currentLayer.data)

exampleRendered ==
    /\ sheetRemote = ExampleSheet
    /\ geoRemote = ExampleGeo
    /\ pc = "ready"
    /\ filtersUnset

totalTimesOf(data) == [i \in 1..Len(data) |-> data[i].properties.totalTime]

\* C9 as stated: in the example town1 is drawn with lightness 75% and town2
\* with lightness 100%, the merged totalTime being [5, 0] and the maximum 5.
ExampleAsStated ==
    exampleRendered =>
        /\ totalTimesOf(mergedData.value) = <<Num(5), Num(0)>>
        /\ MathMax(totalTimesOf(currentLayer.data)) = Num(5)
        /\ currentLayer.styles = <<Num(75), Num(100)>>

\* C9 as amended: in the example the merged totalTime is [5, 0], the maximum
\* is 5, town1 (the feature with the maximum) is drawn with lightness 50%
\* and town2 with lightness 100%.
ExampleAmended ==
    exampleRendered =>
        /\ totalTimesOf(mergedData.value) = <<Num(5), Num(0)>>
        /\ MathMax(totalTimesOf(currentLayer.data)) = Num(5)
        /\ Len(currentLayer.data) = 2
        /\ currentLayer.data[1].geometry = "town1"
        /\ currentLayer.data[2].geometry = "town2"
        /\ currentLayer.styles = <<Num(50), Num(100)>>

\* the example, loaded and rendered with no filter set
ExampleWitness ==
    /\ exampleRendered
    /\ last.event = "init"
    /\ Len(currentLayer.styles) = 2

\* what each count cell of DashRows is to contribute to its counter, 0 for a
\* missing or non-numeric cell
ExpectedCount(v) ==
    CASE v = <<"1">> -> 1
      [] v = <<"2">> -> 2
      [] v = <<"4">> -> 4
      [] v = <<" ", "3">> -> 3
      [] OTHER -> 0

RECURSIVE expectedSum(_, _)
expectedSum(data, property) ==
    IF data = <<>> THEN 0
    ELSE expectedSum(Tail(data), property)
            + ExpectedCount(Get(data[1].properties, property))

\* C7: each counter is a number, the sum over the filtered set of its count
\* column (the captured-bases counter of its two columns), a missing or
\* non-numeric cell counting 0.
CountersSumCells ==
    pc = "ready" =>
        LET data == currentLayer.data
        IN /\ summary.sacrificeSac = Num(expectedSum(data, "SacKilled"))
           /\ summary.revolutionMartyrs = Num(expectedSum(data, "RevKilled"))
           /\ summary.capturedBases =
                 Num(expectedSum(data, "BasesRev") + expectedSum(data, "BasesSac"))
           /\ summary.prisonersWar = Num(expectedSum(data, "Prisoners"))

\* C8: every rendered feature has the lightness 100 - totalTime / max * 50,
\* a number from 50 to 100, max being the largest totalTime of the filtered
\* set, also when that maximum is 0.
LightnessDefined ==
    pc = "ready" =>
        \A i \in 1..Len(currentLayer.styles) :
            LET lightness == currentLayer.styles[i]
            IN /\ IsFinite(lightness)
               /\ JsLeq(Num(50), lightness)
               /\ JsLeq(lightness, Num(100))

----------------------------------------------------------------------------
(* Startup (Spec) *)

\* C1: the map, the dropdowns and the listeners are set up only after both
\* fetches have completed, and once a fetch has failed none of them ever is:
\* the page stays as loaded and nothing is thrown.
FailedFetchAbortsInit ==
    /\ (map = "created" \/ listeners # {} \/ stateOptions # <<>> \/ currentLayer.present)
          => allFulfilled
    /\ allRejected =>
          /\ map = "null"
          /\ listeners = {}
          /\ selects = <<<<>>, <<>>, <<>>>>
          /\ view = <<<<>>, NoLayer, UnsetCounters, <<>>>>
          /\ ~uncaught

====
